---- MODULE Spec2Model ----
(***************************************************************************)
(* Model of app/main.py: the RTSP camera driver.  main() reads its         *)
(* configuration, opens the container, selects the video stream, checks    *)
(* the codec, and then reassembles the demuxed packets into frames, one    *)
(* frame per run of packets with the same timestamp, publishing each frame *)
(* on the VIDEO_DATA topic.                                                *)
(*                                                                         *)
(* Python's None is the empty sequence and a present value x is <<x>>.     *)
(* Instants (datetime) are integers counting microseconds, the resolution  *)
(* of datetime and timedelta.  A Fraction is a pair <<num, den>>.          *)
(***************************************************************************)
EXTENDS Integers, Sequences, FiniteSets, TLC

None == <<>>
Some(x) == <<x>>

\* ------------------------------------------------------------------ bounds
\* The longest packet sequence the source delivers before it ends.
MaxPackets == 3

\* ------------------------------------------------------- module constants
\* FFMPEG_CODEC_MAPPING with one more entry: a table that admits a codec the
\* encoders do not know.
FFMPEG_CODEC_MAPPING_Wide ==
    [c \in {"h264", "h265", "av1", "vp9"} |->
        CASE c = "h264" -> "h264"
          [] c = "h265" -> "hevc"
          [] c = "av1"  -> "libaom-av1"
          [] c = "vp9"  -> "vp9"]

FFMPEG_CODEC_MAPPING ==
    [c \in {"h264", "h265", "av1"} |->
        CASE c = "h264" -> "h264"
          [] c = "h265" -> "hevc"
          [] c = "av1"  -> "libaom-av1"]

\* ENCODING_FUNC_MAPPING with the h264 encoder copied to the h265 entry.
ENCODING_FUNC_MAPPING_Copied ==
    [c \in {"h264", "h265", "av1"} |->
        CASE c = "h264" -> "h264"
          [] c = "h265" -> "h264"
          [] c = "av1"  -> "av1"]

\* The FrameAny field each encode_*_frame function fills.
ENCODING_FUNC_MAPPING ==
    [c \in {"h264", "h265", "av1"} |->
        CASE c = "h264" -> "h264"
          [] c = "h265" -> "h265"
          [] c = "av1"  -> "av1"]

\* ------------------------------------------------------------ environment
\* Values of the VIDEO_CODEC and STREAM_INDEX configuration entries.
ConfigCodecs == {"h264", "h265", "av1", "vp9"}
ConfigStreamIndexes == {0, 1}

\* The entity path of the header, f"/camera/{ip}/{suffix}".
EntityPath == "/camera/192.168.1.10/stream1"

\* What datetime.now() can return when the container has been opened.
Clock == {0, 1500000}

Stream(i, name, tb, start, w, h) ==
    [index |-> i, codec_name |-> name, time_base |-> tb, start_time |-> start,
     width |-> w, height |-> h]

\* The sources av.open can find behind the URI: the streams of each.
Containers ==
    { << Stream(0, "h264", <<1, 30>>, Some(100), 640, 480),
         Stream(1, "aac", <<1, 48000>>, Some(0), 0, 0) >>,
      << Stream(0, "hevc", <<1, 90000>>, None, 1920, 1080) >>,
      << Stream(0, "aac", <<1, 48000>>, Some(0), 0, 0),
         Stream(1, "libaom-av1", <<1, 10000000>>, Some(0), 1280, 720) >> }

\* The timestamps (pts, dts) a packet can carry.
PacketTimes ==
    { <<None, None>>, <<Some(131), None>>,
      <<Some(130), Some(130)>>, <<Some(131), Some(130)>>,
      <<Some(132), Some(132)>>, <<None, Some(131)>> }

\* The payloads: raw bytes and the keyframe flag.
PacketPayloads ==
    { << <<0, 0, 0, 1, 101>>, TRUE >>,
      << <<0, 0, 1, 65>>, FALSE >>,
      << <<170, 187>>, FALSE >> }

\* The packets container.demux can yield.
Packets ==
    { [pts |-> t[1], dts |-> t[2], data |-> p[1], is_keyframe |-> p[2]] :
        t \in PacketTimes, p \in PacketPayloads }

\* --------------------------------------------------------------- helpers
\* 10**6, the microseconds of one second.
MicrosPerSecond == 1000000
\* 10**3, the nanoseconds of one microsecond.
NanosPerMicro == 1000

\* `codec not in FFMPEG_CODEC_MAPPING`.
UnsupportedCodec(c) == c \notin DOMAIN FFMPEG_CODEC_MAPPING

\* MatchingStreams without the test of the index: every stream matches.
MatchingStreams_AnyIndex(streams, idx) ==
    SelectSeq(streams, LAMBDA s : TRUE)

\* The streams of the container with the configured index, in order.
MatchingStreams(streams, idx) ==
    SelectSeq(streams, LAMBDA s : s.index = idx)

\* CodecMismatch comparing with the whole table instead of the entry of the
\* configured codec.
CodecMismatch_AnyEntry(codec_name, c) ==
    codec_name \notin {FFMPEG_CODEC_MAPPING[k] : k \in DOMAIN FFMPEG_CODEC_MAPPING}

\* `codec_name != FFMPEG_CODEC_MAPPING[codec]`.
CodecMismatch(codec_name, c) == codec_name # FFMPEG_CODEC_MAPPING[c]

\* SkipPacket that lets a packet through when it has a pts.
SkipPacket_NeedsNoPts(p) == p.dts = None /\ p.pts = None

\* `packet.dts is None`.
SkipPacket(p) == p.dts = None

\* PacketTime that always takes the decode timestamp.
PacketTime_Dts(p) == p.dts

\* `packet.pts if packet.pts is not None else packet.dts`.
PacketTime(p) == IF p.pts # None THEN p.pts ELSE p.dts

\* `packet_time * video_stream.time_base`, a Fraction.
FramePts(t, time_base) == <<t * time_base[1], time_base[2]>>

\* n/d rounded to the nearest integer, a tie to the even one, for d > 0.
RoundHalfEven(n, d) ==
    LET q == n \div d
        r == n % d
    IN  IF 2 * r < d THEN q
        ELSE IF 2 * r > d THEN q + 1
        ELSE IF q % 2 = 0 THEN q ELSE q + 1

\* `timedelta(seconds=float(frame_pts))` in microseconds: timedelta rounds
\* the seconds to a whole microsecond, half to even.  The double nearest to
\* the fraction is taken as the fraction itself, which the values modelled
\* here do not distinguish.
Timedelta(frame_pts) ==
    RoundHalfEven(frame_pts[1] * MicrosPerSecond, frame_pts[2])

\* AbsoluteTimestamp with the offset subtracted.
AbsoluteTimestamp_Minus(start, t, time_base) ==
    start - Timedelta(FramePts(t, time_base))

\* `stream_start + timedelta(seconds=float(frame_pts))`.
AbsoluteTimestamp(start, t, time_base) ==
    start + Timedelta(FramePts(t, time_base))

\* `Timestamp.FromDatetime`: whole seconds and the nanoseconds past them.
FromDatetime(dt) ==
    [seconds |-> dt \div MicrosPerSecond,
     nanos   |-> (dt % MicrosPerSecond) * NanosPerMicro]

\* `Header(entity_path=...)` with its timestamp set from the datetime.
MakeHeader(dt) == [entity_path |-> EntityPath, timestamp |-> FromDatetime(dt)]

\* `ENCODING_FUNC_MAPPING[codec](header=..., data=..., ...)`: the FrameAny
\* with the sub-message of the codec.
EncodeFrame(c, header, data, width, height, is_keyframe) ==
    [variant |-> ENCODING_FUNC_MAPPING[c], header |-> header, data |-> data,
     width |-> width, height |-> height, is_keyframe |-> is_keyframe]

\* ExtendBuffer putting the packet in front of the buffer.
ExtendBuffer_Prepend(buf, p) == p.data \o buf

\* `frame_buffer.extend(bytes(packet))`.
ExtendBuffer(buf, p) == buf \o p.data

\* ------------------------------------------------------------------ state
VARIABLES
    codec,                    \* VIDEO_CODEC
    stream_index,             \* STREAM_INDEX
    pc,                       \* where main() is
    error,                    \* the exception that ended main(), if any
    container,                \* the streams of the opened container
    stream_start,             \* datetime.now() taken after av.open
    video_stream,             \* the selected stream
    frame_buffer,
    current_packet_time,
    last_absolute_timestamp,
    last_width,
    last_height,
    last_is_keyframe,
    demuxed,                  \* the packets container.demux has yielded
    published                 \* the messages given to topic.publish

config == <<codec, stream_index>>
opened == <<container, stream_start, video_stream>>
assembler == <<frame_buffer, current_packet_time, last_absolute_timestamp,
               last_width, last_height, last_is_keyframe>>
vars == <<codec, stream_index, pc, error, container, stream_start,
          video_stream, frame_buffer, current_packet_time,
          last_absolute_timestamp, last_width, last_height, last_is_keyframe,
          demuxed, published>>

Init ==
    /\ codec \in ConfigCodecs
    /\ stream_index \in ConfigStreamIndexes
    /\ pc = "check_codec"
    /\ error = None
    /\ container = <<>>
    /\ stream_start = None
    /\ video_stream = None
    /\ frame_buffer = <<>>
    /\ current_packet_time = None
    /\ last_absolute_timestamp = None
    /\ last_width = 0
    /\ last_height = 0
    /\ last_is_keyframe = FALSE
    /\ demuxed = <<>>
    /\ published = <<>>

\* The exception leaves main(): the process ends.
Raise(e) ==
    /\ pc' = "failed"
    /\ error' = Some(e)

\* Lines 70-73.
CheckCodec ==
    /\ pc = "check_codec"
    /\ IF UnsupportedCodec(codec)
       THEN Raise("ValueError: Unsupported video codec")
       ELSE pc' = "open" /\ UNCHANGED error
    /\ UNCHANGED <<config, opened, assembler, demuxed, published>>

\* Lines 77-78.
OpenContainer ==
    /\ pc = "open"
    /\ \E c \in Containers, now \in Clock :
          /\ container' = c
          /\ stream_start' = Some(now)
    /\ pc' = "select_stream"
    /\ UNCHANGED <<config, error, video_stream, assembler, demuxed, published>>

\* Lines 80-83.
SelectStream ==
    /\ pc = "select_stream"
    /\ LET found == MatchingStreams(container, stream_index)
       IN  IF found = <<>>
           THEN /\ Raise("Exception: Configured stream index does not exist")
                /\ UNCHANGED video_stream
           ELSE /\ video_stream' = Some(Head(found))
                /\ pc' = "check_stream_codec"
                /\ UNCHANGED error
    /\ UNCHANGED <<config, container, stream_start, assembler, demuxed, published>>

\* CheckStreamCodec starting the assembler from values instead of None: the
\* marker at 0 and the pending timestamp at the start of the stream.
CheckStreamCodec_ZeroInit ==
    /\ pc = "check_stream_codec"
    /\ IF CodecMismatch(video_stream[1].codec_name, codec)
       THEN /\ Raise("ValueError: Configured codec does not match stream codec")
            /\ UNCHANGED assembler
       ELSE /\ frame_buffer' = <<>>
            /\ current_packet_time' = Some(0)
            /\ last_absolute_timestamp' = stream_start
            /\ last_width' = 0
            /\ last_height' = 0
            /\ last_is_keyframe' = FALSE
            /\ pc' = "demux"
            /\ UNCHANGED error
    /\ UNCHANGED <<config, opened, demuxed, published>>

\* Lines 105-114.
CheckStreamCodec ==
    /\ pc = "check_stream_codec"
    /\ IF CodecMismatch(video_stream[1].codec_name, codec)
       THEN /\ Raise("ValueError: Configured codec does not match stream codec")
            /\ UNCHANGED assembler
       ELSE /\ frame_buffer' = <<>>
            /\ current_packet_time' = None
            /\ last_absolute_timestamp' = None
            /\ last_width' = 0
            /\ last_height' = 0
            /\ last_is_keyframe' = FALSE
            /\ pc' = "demux"
            /\ UNCHANGED error
    /\ UNCHANGED <<config, opened, demuxed, published>>

\* ProcessPacket storing the values of the packet before the frame is built:
\* the frame carries the metadata of the packet that closed the group.
ProcessPacket_StoreFirst(packet) ==
    IF SkipPacket(packet)
    THEN UNCHANGED <<assembler, published>>
    ELSE
      LET packet_time == PacketTime(packet)
          absolute_timestamp ==
              AbsoluteTimestamp(stream_start[1], packet_time[1],
                                video_stream[1].time_base)
          marker == IF current_packet_time = None
                    THEN packet_time ELSE current_packet_time
          boundary == packet_time # None /\ packet_time # marker
      IN  /\ IF boundary
             THEN /\ published' = Append(published,
                        EncodeFrame(codec, MakeHeader(absolute_timestamp),
                                    frame_buffer, video_stream[1].width,
                                    video_stream[1].height, packet.is_keyframe))
                  /\ frame_buffer' = ExtendBuffer(<<>>, packet)
                  /\ current_packet_time' = packet_time
             ELSE /\ published' = published
                  /\ frame_buffer' = ExtendBuffer(frame_buffer, packet)
                  /\ current_packet_time' = marker
          /\ last_absolute_timestamp' = Some(absolute_timestamp)
          /\ last_width' = video_stream[1].width
          /\ last_height' = video_stream[1].height
          /\ last_is_keyframe' = packet.is_keyframe

\* ProcessPacket extending the buffer before the test of the boundary: the
\* frame of the closed group ends with the bytes of the packet that closed it.
ProcessPacket_ExtendFirst(packet) ==
    IF SkipPacket(packet)
    THEN UNCHANGED <<assembler, published>>
    ELSE
      LET packet_time == PacketTime(packet)
          absolute_timestamp ==
              AbsoluteTimestamp(stream_start[1], packet_time[1],
                                video_stream[1].time_base)
          marker == IF current_packet_time = None
                    THEN packet_time ELSE current_packet_time
          boundary == packet_time # None /\ packet_time # marker
      IN  /\ IF boundary
             THEN /\ published' = Append(published,
                        EncodeFrame(codec, MakeHeader(last_absolute_timestamp[1]),
                                    ExtendBuffer(frame_buffer, packet),
                                    last_width, last_height, last_is_keyframe))
                  /\ frame_buffer' = <<>>
                  /\ current_packet_time' = packet_time
             ELSE /\ published' = published
                  /\ frame_buffer' = ExtendBuffer(frame_buffer, packet)
                  /\ current_packet_time' = marker
          /\ last_absolute_timestamp' = Some(absolute_timestamp)
          /\ last_width' = video_stream[1].width
          /\ last_height' = video_stream[1].height
          /\ last_is_keyframe' = packet.is_keyframe

\* Lines 117-152: the body of the loop for one packet.
ProcessPacket(packet) ==
    IF SkipPacket(packet)
    THEN UNCHANGED <<assembler, published>>
    ELSE
      LET packet_time == PacketTime(packet)
          absolute_timestamp ==
              AbsoluteTimestamp(stream_start[1], packet_time[1],
                                video_stream[1].time_base)
          marker == IF current_packet_time = None
                    THEN packet_time ELSE current_packet_time
          boundary == packet_time # None /\ packet_time # marker
      IN  /\ IF boundary
             THEN /\ published' = Append(published,
                        EncodeFrame(codec, MakeHeader(last_absolute_timestamp[1]),
                                    frame_buffer, last_width, last_height,
                                    last_is_keyframe))
                  /\ frame_buffer' = ExtendBuffer(<<>>, packet)
                  /\ current_packet_time' = packet_time
             ELSE /\ published' = published
                  /\ frame_buffer' = ExtendBuffer(frame_buffer, packet)
                  /\ current_packet_time' = marker
          /\ last_absolute_timestamp' = Some(absolute_timestamp)
          /\ last_width' = video_stream[1].width
          /\ last_height' = video_stream[1].height
          /\ last_is_keyframe' = packet.is_keyframe

\* Line 116: container.demux yields the next packet.
Demux ==
    /\ pc = "demux"
    /\ Len(demuxed) < MaxPackets
    /\ \E packet \in Packets :
          /\ demuxed' = Append(demuxed, packet)
          /\ ProcessPacket(packet)
    /\ UNCHANGED <<config, pc, error, opened>>

\* Line 116: container.demux is exhausted; the loop and main() end.
EndOfStream ==
    /\ pc = "demux"
    /\ pc' = "done"
    /\ UNCHANGED <<config, error, opened, assembler, demuxed, published>>

Next ==
    \/ CheckCodec
    \/ OpenContainer
    \/ SelectStream
    \/ CheckStreamCodec
    \/ Demux
    \/ EndOfStream

Spec == Init /\ [][Next]_vars

TypeOK ==
    /\ pc \in {"check_codec", "open", "select_stream", "check_stream_codec",
               "demux", "done", "failed"}
    /\ Len(demuxed) <= MaxPackets

\* ------------------------------------------------- the states of a session
\* Opening is lines 54-107, Streaming the loop of lines 109-152, Closed what
\* follows an exception or the end of the loop.  No line of main() examines
\* the first packet before the loop handles it.
SessionState ==
    CASE pc \in {"check_codec", "open", "select_stream", "check_stream_codec"}
            -> "Opening"
      [] pc = "demux" -> "Streaming"
      [] pc \in {"done", "failed"} -> "Closed"

\* ------------------------------------------------ what the claims speak of
\* The packets with a decode timestamp, in the order of the source.
Accepted(packets) == SelectSeq(packets, LAMBDA p : p.dts # None)

\* The ordering key of an accepted packet: pts, or dts when there is no pts.
OrderingKey(p) == IF p.pts = None THEN p.dts[1] ELSE p.pts[1]

\* The maximal runs of consecutive packets with the same ordering key.
RECURSIVE Runs(_)
Runs(packets) ==
    IF packets = <<>> THEN <<>>
    ELSE LET rest == Runs(Tail(packets))
         IN  IF rest # <<>> /\ OrderingKey(rest[1][1]) = OrderingKey(Head(packets))
             THEN << <<Head(packets)>> \o rest[1] >> \o Tail(rest)
             ELSE << <<Head(packets)>> >> \o rest

\* The bytes of the packets of a run, one after the other.
RECURSIVE ConcatData(_)
ConcatData(run) ==
    IF run = <<>> THEN <<>> ELSE Head(run).data \o ConcatData(Tail(run))

RunsOfSource == Runs(Accepted(demuxed))

Last(s) == s[Len(s)]

\* Timestamp a is earlier than timestamp b: by the seconds, then the nanos.
TimestampBefore(a, b) ==
    \/ a.seconds < b.seconds
    \/ a.seconds = b.seconds /\ a.nanos < b.nanos

\* The ordering keys of the accepted packets never decrease.
NonDecreasingKeys ==
    \A i \in 1..(Len(RunsOfSource) - 1) :
        OrderingKey(RunsOfSource[i][1]) <= OrderingKey(RunsOfSource[i + 1][1])

HasStartCode(data) ==
    \/ Len(data) >= 4 /\ SubSeq(data, 1, 4) = <<0, 0, 0, 1>>
    \/ Len(data) >= 3 /\ SubSeq(data, 1, 3) = <<0, 0, 1>>

\* The codec families whose packets are start-code delimited (Annex B).
RequiresStartCode(c) == c \in {"h264", "h265"}

\* ----------------------------------------------------------------- claims

\* C1: once the packet sequence has ended, the number of frames published
\* equals the number of maximal runs of accepted packets with the same
\* ordering key, the final run included.
C1_GroupingCorrectness ==
    pc = "done" => Len(published) = Len(RunsOfSource)

\* C2: the payload of the i-th published frame is the concatenation, in
\* order, of the bytes of the packets of the i-th maximal run; a frame is
\* published only when its run is closed by a packet with another key or the
\* stream has ended; so no packet is part of two frames.
C2_ByteFidelity ==
    /\ Len(published) <= Len(RunsOfSource)
    /\ \A i \in 1..Len(published) :
          /\ published[i].data = ConcatData(RunsOfSource[i])
          /\ i < Len(RunsOfSource) \/ pc = "done"

C2_Witness ==
    /\ Len(published) = 1
    /\ Len(RunsOfSource[1]) = 2
    /\ RunsOfSource[1][1].data # RunsOfSource[1][2].data

\* C3: the absolute timestamp of the last accepted packet is the anchor
\* plus (t - start_pts) * time_base seconds, start_pts being the start time
\* of the stream, 0 when it has none.
C3_TimestampArithmetic ==
    (pc \in {"demux", "done"} /\ Accepted(demuxed) # <<>>) =>
        LET t == OrderingKey(Last(Accepted(demuxed)))
            start_pts == IF video_stream[1].start_time = None
                         THEN 0 ELSE video_stream[1].start_time[1]
            tb == video_stream[1].time_base
        IN  last_absolute_timestamp =
                Some(stream_start[1]
                     + RoundHalfEven((t - start_pts) * tb[1] * MicrosPerSecond, tb[2]))

\* C4: when the codec needs start codes and the first packet with a decode
\* timestamp does not begin with 00 00 00 01 or 00 00 01, the session has
\* failed and no frame is published.
C4_ValidatorGate ==
    LET acc == Accepted(demuxed)
    IN  (acc # <<>> /\ RequiresStartCode(codec) /\ ~HasStartCode(acc[1].data)) =>
            (pc = "failed" /\ published = <<>>)

\* C5: when the codec name of the selected stream is not the name the table
\* gives for the configured codec, the session fails at the check, before
\* any packet is read, and no frame is published.
C5_CodecMismatch ==
    (/\ pc \notin {"check_codec", "open", "select_stream", "check_stream_codec"}
     /\ video_stream # None
     /\ video_stream[1].codec_name # FFMPEG_CODEC_MAPPING[codec]) =>
        /\ pc = "failed"
        /\ error = Some("ValueError: Configured codec does not match stream codec")
        /\ demuxed = <<>>
        /\ published = <<>>

C5_Witness ==
    /\ pc = "failed"
    /\ video_stream # None
    /\ codec = "h264"
    /\ video_stream[1].codec_name = "hevc"

\* C6: a packet without a decode timestamp leaves the buffer, the group key
\* and the pending metadata as they were, publishes nothing, and the session
\* keeps streaming.
C6_SkipLeavesAssembler ==
    [][(demuxed' # demuxed /\ Last(demuxed').dts = None) =>
          (UNCHANGED <<assembler, published>> /\ pc' = "demux")]_vars

C6_Witness ==
    /\ demuxed # <<>>
    /\ Last(demuxed).dts = None
    /\ Last(demuxed).pts # None
    /\ frame_buffer # <<>>
    /\ Last(demuxed).pts # current_packet_time
    /\ Last(demuxed).is_keyframe # last_is_keyframe

\* C7: when no stream of the container has the configured index, the
\* session fails while opening; no packet is read, no frame published.
C7_MissingStreamIndex ==
    (/\ pc \notin {"check_codec", "open", "select_stream"}
     /\ codec \in {"h264", "h265", "av1"}
     /\ \A i \in 1..Len(container) : container[i].index # stream_index) =>
        /\ pc = "failed"
        /\ error = Some("Exception: Configured stream index does not exist")
        /\ video_stream = None
        /\ demuxed = <<>>
        /\ published = <<>>

C7_Witness ==
    /\ pc = "failed"
    /\ container # <<>>
    /\ \A i \in 1..Len(container) : container[i].index # stream_index

\* C8: a configured codec outside h264, h265, av1 ends the session with the
\* unsupported-codec error: nothing is opened, read or published, and the
\* session does not start again.
C8_UnsupportedCodec ==
    (codec \notin {"h264", "h265", "av1"} /\ pc # "check_codec") =>
        /\ pc = "failed"
        /\ error = Some("ValueError: Unsupported video codec")
        /\ container = <<>>
        /\ demuxed = <<>>
        /\ published = <<>>

C8_Witness ==
    /\ codec = "vp9"
    /\ pc = "failed"

\* C9 as stated: when the ordering keys of the accepted packets do not
\* decrease, the header timestamps of successive frames do not decrease, and
\* they increase strictly from one frame to the next of a larger key.
C9_MonotoneStrict ==
    NonDecreasingKeys =>
    \A i \in 1..(Len(published) - 1) :
        TimestampBefore(published[i].header.timestamp,
                        published[i + 1].header.timestamp)

\* C9 as amended: when the ordering keys of the accepted packets do not
\* decrease, the header timestamps of successive frames do not decrease, nor
\* does the pending timestamp fall below the last header; they increase
\* strictly when one unit of the time base is a microsecond or more.
C9_Monotone ==
    NonDecreasingKeys =>
    /\ \A i \in 1..(Len(published) - 1) :
          /\ ~TimestampBefore(published[i + 1].header.timestamp,
                              published[i].header.timestamp)
          /\ video_stream[1].time_base[2]
                <= MicrosPerSecond * video_stream[1].time_base[1]
             => TimestampBefore(published[i].header.timestamp,
                                published[i + 1].header.timestamp)
    /\ published # <<>> =>
          ~TimestampBefore(FromDatetime(last_absolute_timestamp[1]),
                           Last(published).header.timestamp)

C9_Witness ==
    /\ Len(published) = 2
    /\ OrderingKey(RunsOfSource[1][1]) < OrderingKey(RunsOfSource[2][1])
    /\ OrderingKey(RunsOfSource[2][1]) < OrderingKey(RunsOfSource[3][1])
    /\ video_stream[1].time_base = <<1, 90000>>

\* C10: the session moves only along Opening -> Validating -> Streaming ->
\* Closed, or to Closed from any state, and never leaves Closed.
C10_SessionStateMachine ==
    [][\/ SessionState' = SessionState
       \/ <<SessionState, SessionState'>> \in
            { <<"Opening", "Validating">>, <<"Validating", "Streaming">>,
              <<"Opening", "Closed">>, <<"Validating", "Closed">>,
              <<"Streaming", "Closed">> }]_vars

\* The absolute timestamp lines 121-123 give a packet, as the header holds it.
HeaderTimestampOf(p) ==
    FromDatetime(stream_start[1]
                 + Timedelta(FramePts(OrderingKey(p), video_stream[1].time_base)))

\* C11: every published frame carries the width, height, keyframe flag and
\* absolute timestamp of the last accepted packet of its own run, not those
\* of the packet that closed the run nor of an earlier packet of the run;
\* the pending values and the buffer are those of the run that is open.
C11_MetadataOfLastPacket ==
    pc \in {"demux", "done"} =>
        /\ Len(published) <= Len(RunsOfSource)
        /\ \A i \in 1..Len(published) :
              LET last == Last(RunsOfSource[i])
              IN  /\ published[i].is_keyframe = last.is_keyframe
                  /\ published[i].width = video_stream[1].width
                  /\ published[i].height = video_stream[1].height
                  /\ published[i].header.timestamp = HeaderTimestampOf(last)
        /\ RunsOfSource # <<>> =>
              LET open == Last(RunsOfSource)
              IN  /\ frame_buffer = ConcatData(open)
                  /\ last_is_keyframe = Last(open).is_keyframe
                  /\ last_width = video_stream[1].width
                  /\ last_height = video_stream[1].height
                  /\ FromDatetime(last_absolute_timestamp[1])
                        = HeaderTimestampOf(Last(open))

C11_Witness ==
    /\ Len(published) = 1
    /\ Len(RunsOfSource) = 2
    /\ Len(RunsOfSource[1]) = 2
    /\ RunsOfSource[1][1].is_keyframe # RunsOfSource[1][2].is_keyframe
    /\ RunsOfSource[2][1].is_keyframe # RunsOfSource[1][2].is_keyframe
    /\ frame_buffer = RunsOfSource[2][1].data
    /\ video_stream[1].width = 1920

\* C12: packets are taken one at a time in the order of the source; a step
\* publishes at most one frame, at the end of those published before; the
\* frame of run k is published in the step that reads the first packet of
\* run k+1, from the buffer as it was before the bytes of that packet are
\* put in, and the buffer then holds that packet alone.
C12_PublishOrdering ==
    [][/\ demuxed' # demuxed => demuxed' = Append(demuxed, Last(demuxed'))
       /\ Len(published') <= Len(published) + 1
       /\ published' # published =>
             /\ published' = Append(published, Last(published'))
             /\ demuxed' # demuxed
             /\ Last(demuxed').dts # None
             /\ Len(published') = Len(RunsOfSource)
             /\ Len(RunsOfSource') = Len(RunsOfSource) + 1
             /\ Last(published').data = ConcatData(Last(RunsOfSource))
             /\ Last(published').data = frame_buffer
             /\ frame_buffer' = Last(demuxed').data]_vars

C12_Witness ==
    /\ Len(demuxed) = 3
    /\ Len(published) = 2
    /\ published[1].data # published[2].data
    /\ frame_buffer = demuxed[3].data

\* C13: in a session that passed the startup checks the encoder table has
\* an entry for the configured codec (the two tables have the same keys),
\* the configured codec is the one the stream reports, by the codec-name
\* table, and every published frame is of the variant h264, h265 or av1
\* named by the configured codec, the same for all frames of the session.
C13_CodecRouting ==
    pc \in {"demux", "done"} =>
        /\ DOMAIN ENCODING_FUNC_MAPPING = DOMAIN FFMPEG_CODEC_MAPPING
        /\ codec \in DOMAIN ENCODING_FUNC_MAPPING
        /\ video_stream[1].codec_name = FFMPEG_CODEC_MAPPING[codec]
        /\ \A i \in 1..Len(published) :
              /\ published[i].variant \in {"h264", "h265", "av1"}
              /\ published[i].variant = codec
              /\ published[i].variant = published[1].variant

C13_Witness ==
    /\ codec = "h265"
    /\ Len(published) = 2
    /\ published[1].variant = "h265"
    /\ published[2].variant = "h265"

\* The positions of the accepted packets whose ordering key differs from
\* that of the accepted packet before.
KeyChanges(acc) ==
    {i \in 2..Len(acc) : OrderingKey(acc[i]) # OrderingKey(acc[i - 1])}

\* The accepted packets from the last change of key on: the open run.
OpenRun(acc) ==
    LET from == IF KeyChanges(acc) = {} THEN 1
                ELSE CHOOSE i \in KeyChanges(acc) :
                        \A j \in KeyChanges(acc) : j <= i
    IN  SubSeq(acc, from, Len(acc))

\* C14: at every point of the loop, after any prefix of the packets, the
\* number of published frames is the number of positions at which the key
\* of an accepted packet differs from the key of the accepted packet before
\* it; the run still open is in the buffer, not published.
C14_ClosedRunCount ==
    pc = "demux" =>
        /\ Len(published) = Cardinality(KeyChanges(Accepted(demuxed)))
        /\ frame_buffer = ConcatData(OpenRun(Accepted(demuxed)))
        /\ Accepted(demuxed) # <<>> =>
              current_packet_time = Some(OrderingKey(Last(Accepted(demuxed))))

C14_Witness ==
    /\ pc = "demux"
    /\ Len(published) = 1
    /\ Len(demuxed) = 3
    /\ demuxed[2].dts = None
    /\ demuxed[1].pts # None
    /\ demuxed[1].pts # demuxed[1].dts
    /\ demuxed[3].dts # None

\* C15: a frame is published only when the pending timestamp and the group
\* key are set and the buffer holds the bytes of an accepted packet, the
\* last accepted one at its end; so the first accepted packet of a session
\* publishes nothing, and the header timestamp is the pending one.
C15_NoPublishFromEmpty ==
    [][published' # published =>
          /\ last_absolute_timestamp # None
          /\ current_packet_time # None
          /\ Accepted(demuxed) # <<>>
          /\ frame_buffer # <<>>
          /\ LET d == Last(Accepted(demuxed)).data
                 n == Len(frame_buffer)
             IN  /\ n >= Len(d)
                 /\ SubSeq(frame_buffer, n - Len(d) + 1, n) = d
          /\ Last(published').header.timestamp
                = FromDatetime(last_absolute_timestamp[1])]_vars

C15_Witness ==
    /\ Len(demuxed) = 3
    /\ demuxed[1].dts = None
    /\ demuxed[2].dts # None
    /\ Len(published) = 1
    /\ published[1].data = demuxed[2].data

====
